---- MODULE Spec2Model ----
(***************************************************************************)
(* Model of the YubiKey NEO configuration records of python-yubico:        *)
(*   yubico/yubikey_neo_usb_hid.py  NDEF record, DEVICE_CONFIG record,     *)
(*                                  capabilities, write_device_config      *)
(*   yubico/ykdef.py                MODE.all and PID.all                   *)
(* Byte strings are sequences of integers 0..255.                          *)
(***************************************************************************)
EXTENDS Integers, Sequences, FiniteSets, TLC

VARIABLES
    ndef_type,           \* YubiKeyNEO_NDEF.ndef_type
    ndef_str,            \* YubiKeyNEO_NDEF.ndef_str
    access_code,         \* YubiKeyNEO_NDEF.access_code
    ndef_text_lang,      \* YubiKeyNEO_NDEF.ndef_text_lang
    ndef_text_enc,       \* YubiKeyNEO_NDEF.ndef_text_enc
    _mode,               \* YubiKeyNEO_DEVICE_CONFIG._mode
    _cr_timeout,         \* YubiKeyNEO_DEVICE_CONFIG._cr_timeout
    _auto_eject_time,    \* YubiKeyNEO_DEVICE_CONFIG._auto_eject_time
    version,             \* the connected device's (major, minor, patch)
    transport,           \* what _write_config handed to the USB HID transport
    ctor,                \* the arguments the record was constructed with
    op,                  \* the last call made
    args,                \* its arguments
    ret                  \* its outcome: [exc |-> exception or "", val |-> value]

ndef_vars == <<ndef_type, ndef_str, access_code, ndef_text_lang, ndef_text_enc>>
cfg_vars == <<_mode, _cr_timeout, _auto_eject_time>>
dev_vars == <<version, transport, ctor>>
vars == <<ndef_type, ndef_str, access_code, ndef_text_lang, ndef_text_enc,
          _mode, _cr_timeout, _auto_eject_time, version, transport,
          ctor, op, args, ret>>

-----------------------------------------------------------------------------
(* Constants of yubikey_neo_usb_hid.py *)

_ACC_CODE_SIZE == 6
_NDEF_DATA_SIZE == 54
_SLOT_DEVICE_CONFIG == 17
_MODE_OTP == 0
_NDEF_URI_TYPE == 85
_NDEF_TEXT_TYPE == 84

uri_identifiers == <<
    [code |-> 1, prefix |-> <<104, 116, 116, 112, 58, 47, 47, 119, 119, 119, 46>>],  \* 0x01 "http://www."
    [code |-> 2, prefix |-> <<104, 116, 116, 112, 115, 58, 47, 47, 119, 119, 119, 46>>],  \* 0x02 "https://www."
    [code |-> 3, prefix |-> <<104, 116, 116, 112, 58, 47, 47>>],  \* 0x03 "http://"
    [code |-> 4, prefix |-> <<104, 116, 116, 112, 115, 58, 47, 47>>],  \* 0x04 "https://"
    [code |-> 5, prefix |-> <<116, 101, 108, 58>>],  \* 0x05 "tel:"
    [code |-> 6, prefix |-> <<109, 97, 105, 108, 116, 111, 58>>],  \* 0x06 "mailto:"
    [code |-> 7, prefix |-> <<102, 116, 112, 58, 47, 47, 97, 110, 111, 110, 121, 109, 111, 117, 115, 58, 97, 110, 111, 110, 121, 109, 111, 117, 115, 64>>],  \* 0x07 "ftp://anonymous:anonymous@"
    [code |-> 8, prefix |-> <<102, 116, 112, 58, 47, 47, 102, 116, 112, 46>>],  \* 0x08 "ftp://ftp."
    [code |-> 9, prefix |-> <<102, 116, 112, 115, 58, 47, 47>>],  \* 0x09 "ftps://"
    [code |-> 10, prefix |-> <<115, 102, 116, 112, 58, 47, 47>>],  \* 0x0a "sftp://"
    [code |-> 11, prefix |-> <<115, 109, 98, 58, 47, 47>>],  \* 0x0b "smb://"
    [code |-> 12, prefix |-> <<110, 102, 115, 58, 47, 47>>],  \* 0x0c "nfs://"
    [code |-> 13, prefix |-> <<102, 116, 112, 58, 47, 47>>],  \* 0x0d "ftp://"
    [code |-> 14, prefix |-> <<100, 97, 118, 58, 47, 47>>],  \* 0x0e "dav://"
    [code |-> 15, prefix |-> <<110, 101, 119, 115, 58>>],  \* 0x0f "news:"
    [code |-> 16, prefix |-> <<116, 101, 108, 110, 101, 116, 58, 47, 47>>],  \* 0x10 "telnet://"
    [code |-> 17, prefix |-> <<105, 109, 97, 112, 58>>],  \* 0x11 "imap:"
    [code |-> 18, prefix |-> <<114, 116, 115, 112, 58, 47, 47>>],  \* 0x12 "rtsp://"
    [code |-> 19, prefix |-> <<117, 114, 110, 58>>],  \* 0x13 "urn:"
    [code |-> 20, prefix |-> <<112, 111, 112, 58>>],  \* 0x14 "pop:"
    [code |-> 21, prefix |-> <<115, 105, 112, 58>>],  \* 0x15 "sip:"
    [code |-> 22, prefix |-> <<115, 105, 112, 115, 58>>],  \* 0x16 "sips:"
    [code |-> 23, prefix |-> <<116, 102, 116, 112, 58>>],  \* 0x17 "tftp:"
    [code |-> 24, prefix |-> <<98, 116, 115, 112, 112, 58, 47, 47>>],  \* 0x18 "btspp://"
    [code |-> 25, prefix |-> <<98, 116, 108, 50, 99, 97, 112, 58, 47, 47>>],  \* 0x19 "btl2cap://"
    [code |-> 26, prefix |-> <<98, 116, 103, 111, 101, 112, 58, 47, 47>>],  \* 0x1a "btgoep://"
    [code |-> 27, prefix |-> <<116, 99, 112, 111, 98, 101, 120, 58, 47, 47>>],  \* 0x1b "tcpobex://"
    [code |-> 28, prefix |-> <<105, 114, 100, 97, 111, 98, 101, 120, 58, 47, 47>>],  \* 0x1c "irdaobex://"
    [code |-> 29, prefix |-> <<102, 105, 108, 101, 58, 47, 47>>],  \* 0x1d "file://"
    [code |-> 30, prefix |-> <<117, 114, 110, 58, 101, 112, 99, 58, 105, 100, 58>>],  \* 0x1e "urn:epc:id:"
    [code |-> 31, prefix |-> <<117, 114, 110, 58, 101, 112, 99, 58, 116, 97, 103, 58>>],  \* 0x1f "urn:epc:tag:"
    [code |-> 32, prefix |-> <<117, 114, 110, 58, 101, 112, 99, 58, 112, 97, 116, 58>>],  \* 0x20 "urn:epc:pat:"
    [code |-> 33, prefix |-> <<117, 114, 110, 58, 101, 112, 99, 58, 114, 97, 119, 58>>],  \* 0x21 "urn:epc:raw:"
    [code |-> 34, prefix |-> <<117, 114, 110, 58, 101, 112, 99, 58>>],  \* 0x22 "urn:epc:"
    [code |-> 35, prefix |-> <<117, 114, 110, 58, 110, 102, 99, 58>>]   \* 0x23 "urn:nfc:"
  >>

-----------------------------------------------------------------------------
(* Bounds and the inputs drawn from them *)

\* longest run of filler bytes appended to a payload
MaxFill == 55
\* largest raw type code offered to type(other=...) beyond one byte
MaxOther == 256
\* highest major version of a connected device
MaxMajor == 3
\* most writes handed to the transport in one behaviour
MaxWrites == 1

Fill(n) == [i \in 1..n |-> 97]

Upper(s) == [i \in 1..Len(s) |-> IF s[i] \in 97..122 THEN s[i] - 32 ELSE s[i]]

TablePrefixes == {uri_identifiers[i].prefix : i \in 1..Len(uri_identifiers)}

\* three starts that are no table prefix: "", "htt", "xyz:"
OtherStarts == {<< >>, <<104, 116, 116>>, <<120, 121, 122, 58>>}

\* payloads: every table prefix, alone and followed by filler up to the URI
\* boundary; every table prefix in upper case; the other starts followed by
\* filler up to the raw boundary
Payloads ==
    {p \o Fill(n) : p \in TablePrefixes, n \in {0, MaxFill - 2, MaxFill - 1}}
        \cup {Upper(p \o Fill(1)) : p \in TablePrefixes}
        \cup {p \o Fill(n) : p \in OtherStarts, n \in {0} \cup ((MaxFill - 4)..MaxFill)}

None == [kind |-> "None", val |-> 0]
IntArg(n) == [kind |-> "int", val |-> n]
StrArg == [kind |-> "str", val |-> 0]

\* access codes given to the constructor: none, a 6-byte code, a short code
AccessCodes == {None,
                [kind |-> "bytes", val |-> <<1, 2, 3, 4, 5, 6>>],
                [kind |-> "bytes", val |-> <<9, 8, 7>>]}

Others == {None, StrArg} \cup {IntArg(n) : n \in {0, _NDEF_TEXT_TYPE, _NDEF_URI_TYPE, MaxOther}}

Languages == {<<101, 110>>, <<101, 110, 45, 85, 83>>}     \* "en", "en-US"
Encodings == {"UTF-8", "UTF16"}

-----------------------------------------------------------------------------
(* Helpers: Python bytes and struct *)

Min(S) == CHOOSE x \in S : \A y \in S : x <= y

\* str.lower() of one latin-1 character
Lower(b) ==
    IF b \in 65..90 THEN b + 32
    ELSE IF b \in 192..222 /\ b # 215 THEN b + 32
    ELSE b

\* data[:n].decode('latin-1').lower()
LowerHead(data, n) ==
    [i \in 1..(IF n < Len(data) THEN n ELSE Len(data)) |-> Lower(data[i])]

\* data[n:]
Tail_from(data, n) == SubSeq(data, n + 1, Len(data))

\* bytes.ljust(n, b'\0')
ljust(data, n) ==
    IF Len(data) >= n THEN data
    ELSE data \o [i \in 1..(n - Len(data)) |-> 0]

\* struct.pack of an 'Ns' field: truncated or null-padded to n bytes
pack_s(data, n) ==
    IF Len(data) >= n THEN SubSeq(data, 1, n) ELSE ljust(data, n)

\* x & 0b10000000
and_0x80(x) == ((x \div 128) % 2) * 128

Ok(v) == [exc |-> "", val |-> v]
Raise(e) == [exc |-> e, val |-> << >>]

-----------------------------------------------------------------------------
(* YubiKeyNEO_NDEF *)

\* index of the first table entry whose prefix the data starts with
\* (compared in lower case), 0 when there is none: the loop with its break
uri_match(data) ==
    LET M == {i \in 1..Len(uri_identifiers) :
                LowerHead(data, Len(uri_identifiers[i].prefix))
                    = uri_identifiers[i].prefix}
    IN  IF M = {} THEN 0 ELSE Min(M)

_encode_ndef_uri_type(data) ==
    LET i == uri_match(data)
    IN  IF i = 0 THEN <<0>> \o data
        ELSE <<uri_identifiers[i].code>>
                 \o Tail_from(data, Len(uri_identifiers[i].prefix))

_encode_ndef_text_params(data, lang, enc) ==
    LET status == IF enc = "UTF16" THEN and_0x80(Len(lang)) ELSE Len(lang)
    IN  <<status>> \o lang \o data

\* mutant of ndef_data: the text branch as a plain else
ndef_data_else_text(type, str, lang, enc) ==
    IF type = _NDEF_URI_TYPE THEN _encode_ndef_uri_type(str)
    ELSE _encode_ndef_text_params(str, lang, enc)

\* the data to_string packs, after the type-specific encoding
ndef_data(type, str, lang, enc) ==
    IF type = _NDEF_URI_TYPE THEN _encode_ndef_uri_type(str)
    ELSE IF type = _NDEF_TEXT_TYPE THEN _encode_ndef_text_params(str, lang, enc)
    ELSE str

\* mutant of NDEF_to_string: the data packed without ljust
NDEF_to_string_unpadded(type, str, ac, lang, enc) ==
    LET data == ndef_data(type, str, lang, enc)
    IN  IF Len(data) > _NDEF_DATA_SIZE
        THEN Raise("YubiKeyNEO_USBHIDError: NDEF payload too long")
        ELSE IF type \notin 0..255
        THEN Raise("struct.error")
        ELSE Ok(<<Len(data), type>> \o data \o pack_s(ac, _ACC_CODE_SIZE))

\* mutant of NDEF_to_string: the length test as >=
NDEF_to_string_ge(type, str, ac, lang, enc) ==
    LET data == ndef_data(type, str, lang, enc)
    IN  IF Len(data) >= _NDEF_DATA_SIZE
        THEN Raise("YubiKeyNEO_USBHIDError: NDEF payload too long")
        ELSE IF type \notin 0..255
        THEN Raise("struct.error")
        ELSE Ok(<<Len(data), type>> \o ljust(data, _NDEF_DATA_SIZE)
                    \o pack_s(ac, _ACC_CODE_SIZE))

NDEF_to_string(type, str, ac, lang, enc) ==
    LET data == ndef_data(type, str, lang, enc)
    IN  IF Len(data) > _NDEF_DATA_SIZE
        THEN Raise("YubiKeyNEO_USBHIDError: NDEF payload too long")
        ELSE IF type \notin 0..255
        THEN Raise("struct.error")
        ELSE Ok(<<Len(data), type>> \o ljust(data, _NDEF_DATA_SIZE)
                    \o pack_s(ac, _ACC_CODE_SIZE))

\* mutant of NDEF_type: url tested without looking at text
NDEF_type_url_first(url, text, other, cur) ==
    IF url /\ other = None THEN Ok(_NDEF_URI_TYPE)
    ELSE IF ~url /\ text /\ other = None THEN Ok(_NDEF_TEXT_TYPE)
    ELSE IF ~url /\ ~text /\ other.kind = "int" THEN Ok(other.val)
    ELSE [exc |-> "YubiKeyNEO_USBHIDError: Bad or conflicting NDEF type specified",
          val |-> cur]

\* the outcome of type(url, text, other) on a record of type cur
NDEF_type(url, text, other, cur) ==
    IF url /\ ~text /\ other = None THEN Ok(_NDEF_URI_TYPE)
    ELSE IF ~url /\ text /\ other = None THEN Ok(_NDEF_TEXT_TYPE)
    ELSE IF ~url /\ ~text /\ other.kind = "int" THEN Ok(other.val)
    ELSE [exc |-> "YubiKeyNEO_USBHIDError: Bad or conflicting NDEF type specified",
          val |-> cur]

\* YubiKeyNEO_NDEF(data, access_code)
InitNDEF ==
    /\ ndef_type = _NDEF_URI_TYPE
    /\ ndef_str \in Payloads
    /\ \E ac \in AccessCodes :
          /\ access_code = IF ac = None THEN [i \in 1.._ACC_CODE_SIZE |-> 0] ELSE ac.val
          /\ ctor = [data |-> ndef_str, access_code |-> ac]
    /\ ndef_text_lang = <<101, 110>>
    /\ ndef_text_enc = "UTF-8"
    /\ op = "YubiKeyNEO_NDEF"
    /\ args = ctor
    /\ ret = Ok(<< >>)

Call_text ==
    \E encoding \in Encodings, language \in Languages :
        /\ ndef_type' = _NDEF_TEXT_TYPE
        /\ ndef_text_lang' = language
        /\ ndef_text_enc' = encoding
        /\ op' = "text"
        /\ args' = [encoding |-> encoding, language |-> language]
        /\ ret' = Ok(<< >>)
        /\ UNCHANGED <<ndef_str, access_code, cfg_vars, dev_vars>>

Call_type ==
    \E url \in BOOLEAN, txt \in BOOLEAN, other \in Others :
        LET r == NDEF_type(url, txt, other, ndef_type)
        IN  /\ ndef_type' = r.val
            /\ op' = "type"
            /\ args' = [url |-> url, text |-> txt, other |-> other]
            /\ ret' = [exc |-> r.exc, val |-> << >>]
            /\ UNCHANGED <<ndef_str, access_code, ndef_text_lang,
                           ndef_text_enc, cfg_vars, dev_vars>>

Call_NDEF_to_string ==
    /\ op' = "NDEF.to_string"
    /\ args' = << >>
    /\ ret' = NDEF_to_string(ndef_type, ndef_str, access_code,
                             ndef_text_lang, ndef_text_enc)
    /\ UNCHANGED <<ndef_vars, cfg_vars, dev_vars>>

-----------------------------------------------------------------------------
(* YubiKeyNEO_DEVICE_CONFIG *)

Modes == {0, 2, 6}
Timeouts == {0, 10, 256}
EjectTimes == {0, 300, 65536}

\* mutant of DEVICE_CONFIG_to_string: the format as '>BBH'
DEVICE_CONFIG_to_string_be(mode, cr_timeout, auto_eject_time) ==
    IF mode \notin 0..255 \/ cr_timeout \notin 0..255
           \/ auto_eject_time \notin 0..65535
    THEN Raise("struct.error")
    ELSE Ok(<<mode, cr_timeout, auto_eject_time \div 256, auto_eject_time % 256>>)

\* struct.pack('<BBH', mode, cr_timeout, auto_eject_time)
DEVICE_CONFIG_to_string(mode, cr_timeout, auto_eject_time) ==
    IF mode \notin 0..255 \/ cr_timeout \notin 0..255
           \/ auto_eject_time \notin 0..65535
    THEN Raise("struct.error")
    ELSE Ok(<<mode, cr_timeout, auto_eject_time % 256, auto_eject_time \div 256>>)

\* to_frame's payload: data.ljust(64, b'\0')
frame_payload(data) == ljust(data, 64)

\* YubiKeyNEO_DEVICE_CONFIG(mode)
InitDEVICE_CONFIG ==
    /\ _mode \in Modes
    /\ _cr_timeout = 0
    /\ _auto_eject_time = 0

Call_cr_timeout ==
    \E timeout \in Timeouts :
        /\ _cr_timeout' = timeout
        /\ op' = "cr_timeout"
        /\ args' = [timeout |-> timeout]
        /\ ret' = Ok(<< >>)
        /\ UNCHANGED <<_mode, _auto_eject_time, ndef_vars, dev_vars>>

Call_auto_eject_time ==
    \E t \in EjectTimes :
        /\ _auto_eject_time' = t
        /\ op' = "auto_eject_time"
        /\ args' = [auto_eject_time |-> t]
        /\ ret' = Ok(<< >>)
        /\ UNCHANGED <<_mode, _cr_timeout, ndef_vars, dev_vars>>

Call_DEVICE_CONFIG_to_string ==
    /\ op' = "DEVICE_CONFIG.to_string"
    /\ args' = << >>
    /\ ret' = DEVICE_CONFIG_to_string(_mode, _cr_timeout, _auto_eject_time)
    /\ UNCHANGED <<ndef_vars, cfg_vars, dev_vars>>

-----------------------------------------------------------------------------
(* YubiKeyNEO_USBHIDCapabilities *)

\* Python's a < b on tuples of integers
tuple_lt(a, b) ==
    \/ \E i \in 1..Len(a) :
          /\ i <= Len(b)
          /\ a[i] < b[i]
          /\ \A j \in 1..(i - 1) : a[j] = b[j]
    \/ /\ Len(a) < Len(b)
       /\ \A j \in 1..Len(a) : a[j] = b[j]

\* Python's a >= b on tuples of integers
tuple_ge(a, b) == ~tuple_lt(a, b)

have_challenge_response(v) == tuple_ge(v, <<3, 0, 0>>)

\* mutant of have_configuration_slot: the version test dropped
have_configuration_slot_any(v, slot) == slot \in {1, 2}

have_configuration_slot(v, slot) ==
    IF tuple_lt(v, <<3, 0, 0>>) THEN slot = 1 ELSE slot \in {1, 2}

have_nfc_ndef(v) == TRUE

have_device_config(v) == tuple_ge(v, <<3, 0, 0>>)

Versions == {<<a, b, c>> : a \in 2..MaxMajor, b \in {0, 1, 4}, c \in {0, 3, 9}}
Slots == 0..3

Call_have_challenge_response ==
    /\ op' = "have_challenge_response"
    /\ args' = << >>
    /\ ret' = Ok(have_challenge_response(version))
    /\ UNCHANGED <<ndef_vars, cfg_vars, dev_vars>>

Call_have_configuration_slot ==
    \E slot \in Slots :
        /\ op' = "have_configuration_slot"
        /\ args' = [slot |-> slot]
        /\ ret' = Ok(have_configuration_slot(version, slot))
        /\ UNCHANGED <<ndef_vars, cfg_vars, dev_vars>>

Call_have_nfc_ndef ==
    /\ op' = "have_nfc_ndef"
    /\ args' = << >>
    /\ ret' = Ok(have_nfc_ndef(version))
    /\ UNCHANGED <<ndef_vars, cfg_vars, dev_vars>>

Call_have_device_config ==
    /\ op' = "have_device_config"
    /\ args' = << >>
    /\ ret' = Ok(have_device_config(version))
    /\ UNCHANGED <<ndef_vars, cfg_vars, dev_vars>>

-----------------------------------------------------------------------------
(* YubiKeyNEO_USBHID *)

\* YubiKeyUSBHID._write_config(cfg, slot): the record's frame goes to the
\* transport; an exception of to_string propagates before anything is sent
_write_config(cfg_string, slot, sent) ==
    IF cfg_string.exc # "" THEN [ret |-> cfg_string, transport |-> sent]
    ELSE [ret |-> Ok(<< >>),
          transport |-> Append(sent, [slot |-> slot,
                                     payload |-> frame_payload(cfg_string.val)])]

\* the name yubikey_base is bound by no import of the module, so evaluating
\* yubikey_base.YubiKeyVersionError raises NameError
write_device_config(v, cfg_string, sent) ==
    IF ~have_device_config(v)
    THEN [ret |-> Raise("NameError: name 'yubikey_base' is not defined"),
          transport |-> sent]
    ELSE _write_config(cfg_string, _SLOT_DEVICE_CONFIG, sent)

Call_write_device_config ==
    /\ Len(transport) < MaxWrites
    /\ LET r == write_device_config(
                    version,
                    DEVICE_CONFIG_to_string(_mode, _cr_timeout, _auto_eject_time),
                    transport)
       IN  /\ transport' = r.transport
           /\ ret' = r.ret
    /\ op' = "write_device_config"
    /\ args' = << >>
    /\ UNCHANGED <<ndef_vars, cfg_vars, version, ctor>>

-----------------------------------------------------------------------------
(* ykdef.py: MODE and PID *)

MODE == [OTP |-> 0, CCID |-> 1, OTP_CCID |-> 2, U2F |-> 3, OTP_U2F |-> 4,
         U2F_CCID |-> 5, OTP_U2F_CCID |-> 6]

PID == [YUBIKEY |-> 16,
        NEO_OTP |-> 272, NEO_OTP_CCID |-> 273, NEO_CCID |-> 274,
        NEO_U2F |-> 275, NEO_OTP_U2F |-> 276, NEO_U2F_CCID |-> 277,
        NEO_OTP_U2F_CCID |-> 278,
        NEO_SKY |-> 288,
        YK4_OTP |-> 1025, YK4_U2F |-> 1026, YK4_OTP_U2F |-> 1027,
        YK4_CCID |-> 1028, YK4_OTP_CCID |-> 1029, YK4_U2F_CCID |-> 1030,
        YK4_OTP_U2F_CCID |-> 1031,
        PLUS_U2F_OTP |-> 1040]

MODE_all(otp, ccid, u2f) ==
    LET modes == {MODE.OTP, MODE.CCID, MODE.OTP_CCID, MODE.U2F, MODE.OTP_U2F,
                  MODE.U2F_CCID, MODE.OTP_U2F_CCID}
        m1 == IF otp THEN modes \ {MODE.CCID, MODE.U2F, MODE.U2F_CCID} ELSE modes
        m2 == IF ccid THEN m1 \ {MODE.OTP, MODE.U2F, MODE.OTP_U2F} ELSE m1
    IN  IF u2f THEN m2 \ {MODE.OTP, MODE.CCID, MODE.OTP_CCID} ELSE m2

\* mutant of PID_all: NEO_SKY missing from the otp difference
PID_all_sky(otp, ccid, u2f) ==
    LET pids == {PID.YUBIKEY, PID.NEO_OTP, PID.NEO_OTP_CCID, PID.NEO_CCID,
                 PID.NEO_U2F, PID.NEO_OTP_U2F, PID.NEO_U2F_CCID,
                 PID.NEO_OTP_U2F_CCID, PID.NEO_SKY, PID.YK4_OTP, PID.YK4_U2F,
                 PID.YK4_OTP_U2F, PID.YK4_CCID, PID.YK4_OTP_CCID,
                 PID.YK4_U2F_CCID, PID.YK4_OTP_U2F_CCID, PID.PLUS_U2F_OTP}
        p1 == IF otp
              THEN pids \ {PID.NEO_CCID, PID.NEO_U2F, PID.NEO_U2F_CCID,
                           PID.YK4_U2F, PID.YK4_CCID, PID.YK4_U2F_CCID}
              ELSE pids
        p2 == IF ccid
              THEN p1 \ {PID.YUBIKEY, PID.NEO_OTP, PID.NEO_U2F, PID.NEO_OTP_U2F,
                         PID.NEO_SKY, PID.YK4_OTP, PID.YK4_U2F,
                         PID.YK4_OTP_U2F, PID.PLUS_U2F_OTP}
              ELSE p1
    IN  IF u2f
        THEN p2 \ {PID.YUBIKEY, PID.NEO_OTP, PID.NEO_OTP_CCID, PID.NEO_CCID,
                   PID.YK4_OTP, PID.YK4_CCID, PID.YK4_OTP_CCID}
        ELSE p2

PID_all(otp, ccid, u2f) ==
    LET pids == {PID.YUBIKEY, PID.NEO_OTP, PID.NEO_OTP_CCID, PID.NEO_CCID,
                 PID.NEO_U2F, PID.NEO_OTP_U2F, PID.NEO_U2F_CCID,
                 PID.NEO_OTP_U2F_CCID, PID.NEO_SKY, PID.YK4_OTP, PID.YK4_U2F,
                 PID.YK4_OTP_U2F, PID.YK4_CCID, PID.YK4_OTP_CCID,
                 PID.YK4_U2F_CCID, PID.YK4_OTP_U2F_CCID, PID.PLUS_U2F_OTP}
        p1 == IF otp
              THEN pids \ {PID.NEO_CCID, PID.NEO_U2F, PID.NEO_U2F_CCID,
                           PID.NEO_SKY, PID.YK4_U2F, PID.YK4_CCID,
                           PID.YK4_U2F_CCID}
              ELSE pids
        p2 == IF ccid
              THEN p1 \ {PID.YUBIKEY, PID.NEO_OTP, PID.NEO_U2F, PID.NEO_OTP_U2F,
                         PID.NEO_SKY, PID.YK4_OTP, PID.YK4_U2F,
                         PID.YK4_OTP_U2F, PID.PLUS_U2F_OTP}
              ELSE p1
    IN  IF u2f
        THEN p2 \ {PID.YUBIKEY, PID.NEO_OTP, PID.NEO_OTP_CCID, PID.NEO_CCID,
                   PID.YK4_OTP, PID.YK4_CCID, PID.YK4_OTP_CCID}
        ELSE p2

Call_MODE_all ==
    \E otp \in BOOLEAN, ccid \in BOOLEAN, u2f \in BOOLEAN :
        /\ op' = "MODE.all"
        /\ args' = [otp |-> otp, ccid |-> ccid, u2f |-> u2f]
        /\ ret' = Ok(MODE_all(otp, ccid, u2f))
        /\ UNCHANGED <<ndef_vars, cfg_vars, dev_vars>>

Call_PID_all ==
    \E otp \in BOOLEAN, ccid \in BOOLEAN, u2f \in BOOLEAN :
        /\ op' = "PID.all"
        /\ args' = [otp |-> otp, ccid |-> ccid, u2f |-> u2f]
        /\ ret' = Ok(PID_all(otp, ccid, u2f))
        /\ UNCHANGED <<ndef_vars, cfg_vars, dev_vars>>

-----------------------------------------------------------------------------
(* Specifications *)

\* an NDEF record is built, configured and serialised; no device is involved
InitSpecNDEF ==
    /\ InitNDEF
    /\ _mode = _MODE_OTP
    /\ _cr_timeout = 0
    /\ _auto_eject_time = 0
    /\ version = <<3, 0, 0>>
    /\ transport = << >>

NextNDEF ==
    \/ Call_text
    \/ Call_type
    \/ Call_NDEF_to_string

SpecNDEF == InitSpecNDEF /\ [][NextNDEF]_vars

\* a device of some version is connected and a DEVICE_CONFIG record is built,
\* configured, serialised and written; the catalogue is queried
Init ==
    /\ InitDEVICE_CONFIG
    /\ version \in Versions
    /\ transport = << >>
    /\ ndef_type = _NDEF_URI_TYPE
    /\ ndef_str = << >>
    /\ access_code = [i \in 1.._ACC_CODE_SIZE |-> 0]
    /\ ndef_text_lang = <<101, 110>>
    /\ ndef_text_enc = "UTF-8"
    /\ ctor = [mode |-> _mode]
    /\ op = "YubiKeyNEO_DEVICE_CONFIG"
    /\ args = ctor
    /\ ret = Ok(<< >>)

Next ==
    \/ Call_cr_timeout
    \/ Call_auto_eject_time
    \/ Call_DEVICE_CONFIG_to_string
    \/ Call_have_challenge_response
    \/ Call_have_configuration_slot
    \/ Call_have_nfc_ndef
    \/ Call_have_device_config
    \/ Call_write_device_config
    \/ Call_MODE_all
    \/ Call_PID_all

Spec == Init /\ [][Next]_vars

-----------------------------------------------------------------------------
(* Properties of the NDEF record, under SpecNDEF *)

TooLong == "YubiKeyNEO_USBHIDError: NDEF payload too long"
BadType == "YubiKeyNEO_USBHIDError: Bad or conflicting NDEF type specified"

\* the record a successful to_string returned, by field
RecLen == ret.val[1]
RecType == ret.val[2]
RecData == SubSeq(ret.val, 3, 2 + ret.val[1])
RecPadding == SubSeq(ret.val, 3 + ret.val[1], 56)
RecAccessCode == SubSeq(ret.val, 57, Len(ret.val))

Serialised == op = "NDEF.to_string" /\ ret.exc = ""

StartsWith(data, P) ==
    /\ Len(data) >= Len(P)
    /\ \A i \in 1..Len(P) : Lower(data[i]) = P[i]

Matching(data) ==
    {i \in 1..Len(uri_identifiers) : StartsWith(data, uri_identifiers[i].prefix)}

\* among the entries whose prefix the payload starts with, the most specific
MostSpecific(data) ==
    CHOOSE i \in Matching(data) :
        \A j \in Matching(data) :
            Len(uri_identifiers[j].prefix) <= Len(uri_identifiers[i].prefix)

\* C2: a URI payload starting (case-insensitively) with a table prefix P is
\* encoded as P's code followed by the payload with P stripped; a payload
\* starting with no table prefix as 0x00 followed by the payload.  Stated for
\* the most specific entry the payload starts with, which the claim covers
\* along with every other matching entry.
C2_PrefixCode ==
    (Serialised /\ ndef_type = _NDEF_URI_TYPE) =>
        IF Matching(ndef_str) = {}
        THEN RecData = <<0>> \o ndef_str
        ELSE LET e == uri_identifiers[MostSpecific(ndef_str)]
             IN  RecData = <<e.code>> \o Tail_from(ndef_str, Len(e.prefix))

\* the length of the data after the type-specific encoding, counted from
\* the payload
EncodedLen ==
    IF ndef_type = _NDEF_URI_TYPE
    THEN 1 + Len(ndef_str)
           - (IF uri_match(ndef_str) = 0 THEN 0
              ELSE Len(uri_identifiers[uri_match(ndef_str)].prefix))
    ELSE IF ndef_type = _NDEF_TEXT_TYPE
    THEN 1 + Len(ndef_text_lang) + Len(ndef_str)
    ELSE Len(ndef_str)

\* C3: to_string fails with the payload-too-large error exactly when the
\* encoded data is longer than 54 bytes, and the failure leaves the record
\* unchanged.
C3_TooLarge ==
    [][op' = "NDEF.to_string" =>
          /\ (ret'.exc = TooLong) <=> (EncodedLen > 54)
          /\ ret'.exc = TooLong => ndef_vars' = ndef_vars]_vars

C3_Witness ==
    /\ op = "NDEF.to_string"
    /\ ndef_type = _NDEF_URI_TYPE
    /\ uri_match(ndef_str) # 0
    /\ EncodedLen = 55
    /\ ret.exc = TooLong

\* C4: for the Text type the data is a status byte, the language tag and the
\* payload; the status byte is the tag's length, with 0x80 set for UTF-16 and
\* clear for UTF-8.
C4_TextStatus ==
    (Serialised /\ ndef_type = _NDEF_TEXT_TYPE) =>
        RecData = <<Len(ndef_text_lang)
                      + (IF ndef_text_enc = "UTF16" THEN 128 ELSE 0)>>
                    \o ndef_text_lang \o ndef_str

\* how many of url, text, other a call of type() specifies
Specified(a) ==
    (IF a.url THEN 1 ELSE 0) + (IF a.text THEN 1 ELSE 0)
        + (IF a.other.kind # "None" THEN 1 ELSE 0)

\* C5: type() succeeds only when exactly one of url=True, text=True,
\* other=<integer> is specified, and then sets the discriminant to URI, Text
\* or the code; every other call fails with YubiKeyNEO_USBHIDError and leaves
\* the record unchanged.
C5_TypeSelection ==
    [][op' = "type" =>
          IF Specified(args') = 1 /\ args'.other.kind \in {"None", "int"}
          THEN /\ ret'.exc = ""
               /\ ndef_type' = IF args'.url THEN _NDEF_URI_TYPE
                               ELSE IF args'.text THEN _NDEF_TEXT_TYPE
                               ELSE args'.other.val
          ELSE /\ ret'.exc = BadType
               /\ ndef_vars' = ndef_vars]_vars

C5_Witness ==
    /\ op = "type"
    /\ args.url
    /\ args.text
    /\ ret.exc = BadType
    /\ ndef_type = _NDEF_TEXT_TYPE

\* C10 as claimed: after type(other=n), for every integer n, a successful
\* to_string has type byte n and the payload, unmodified, as its data.
C10_RawPassThrough ==
    [][(op = "type" /\ args.other.kind = "int" /\ ret.exc = ""
            /\ op' = "NDEF.to_string" /\ ret'.exc = "") =>
          /\ ret'.val[2] = args.other.val
          /\ SubSeq(ret'.val, 3, 2 + ret'.val[1]) = ctor.data]_vars

\* C10 as amended: the same for every n other than the URI code 0x55 and the
\* Text code 0x54, which select those types.
C10_RawPassThroughAmended ==
    [][(op = "type" /\ args.other.kind = "int" /\ ret.exc = ""
            /\ args.other.val \notin {_NDEF_URI_TYPE, _NDEF_TEXT_TYPE}
            /\ op' = "NDEF.to_string" /\ ret'.exc = "") =>
          /\ ret'.val[2] = args.other.val
          /\ ret'.val[1] = Len(ctor.data)
          /\ SubSeq(ret'.val, 3, 2 + ret'.val[1]) = ctor.data]_vars

C10_Witness ==
    /\ Serialised
    /\ ndef_type = 0
    /\ uri_match(ndef_str) # 0
    /\ RecData = ctor.data

-----------------------------------------------------------------------------
(* Properties of the device side and of the catalogue, under Spec *)

\* C6: DEVICE_CONFIG.to_string returns 4 bytes: the constructor's mode, the
\* timeout and the eject time last set (0 and 0 before any call), the eject
\* time as 16 bits little-endian; mode 2, timeout 10, eject 300 give
\* 02 0A 2C 01.
C6_DeviceConfigLayout ==
    /\ _mode = ctor.mode
    /\ op = "YubiKeyNEO_DEVICE_CONFIG" => _cr_timeout = 0 /\ _auto_eject_time = 0
    /\ op = "cr_timeout" => _cr_timeout = args.timeout
    /\ op = "auto_eject_time" => _auto_eject_time = args.auto_eject_time
    /\ op = "DEVICE_CONFIG.to_string" =>
          /\ ret.exc = "" <=> (_cr_timeout \in 0..255 /\ _auto_eject_time \in 0..65535)
          /\ ret.exc = "" =>
                /\ Len(ret.val) = 4
                /\ ret.val[1] = _mode
                /\ ret.val[2] = _cr_timeout
                /\ ret.val[3] \in 0..255
                /\ ret.val[4] \in 0..255
                /\ ret.val[3] + 256 * ret.val[4] = _auto_eject_time
          /\ (_mode = 2 /\ _cr_timeout = 10 /\ _auto_eject_time = 300)
                => ret.val = <<2, 10, 44, 1>>

C6_Witness ==
    /\ op = "DEVICE_CONFIG.to_string"
    /\ _mode = 2
    /\ _cr_timeout = 10
    /\ _auto_eject_time = 300
    /\ ret.val = <<2, 10, 44, 1>>

\* C7: write_device_config on a device below 3.0.0 fails with
\* YubiKeyVersionError and hands nothing to the transport; from 3.0.0 on the
\* record is written to slot 0x11.
C7_VersionGate ==
    op = "write_device_config" =>
        IF version[1] < 3
        THEN /\ ret.exc = "YubiKeyVersionError"
             /\ transport = << >>
        ELSE ret.exc = "" =>
                /\ Len(transport) = 1
                /\ transport[1].slot = _SLOT_DEVICE_CONFIG

\* v >= (3, 0, 0), lexicographically
AtLeast300(v) ==
    \/ v[1] > 3
    \/ v[1] = 3 /\ (v[2] > 0 \/ (v[2] = 0 /\ v[3] >= 0))

\* C8: have_challenge_response and have_device_config hold exactly from
\* version 3.0.0 on; slot 1 is always usable, slot 2 exactly from 3.0.0 on, no
\* other slot ever; have_nfc_ndef always holds.
C8_Capabilities ==
    /\ op = "have_challenge_response" => (ret.val <=> AtLeast300(version))
    /\ op = "have_device_config" =>
          /\ ret.val <=> AtLeast300(version)
          /\ version = <<2, 1, 9>> => ~ret.val
          /\ version = <<3, 0, 0>> => ret.val
    /\ op = "have_nfc_ndef" => ret.val
    /\ op = "have_configuration_slot" =>
          /\ args.slot = 1 => ret.val
          /\ args.slot = 2 => (ret.val <=> AtLeast300(version))
          /\ args.slot \notin {1, 2} => ~ret.val
          /\ (args.slot = 2 /\ version = <<2, 4, 3>>) => ~ret.val
          /\ (args.slot = 2 /\ version = <<3, 1, 0>>) => ret.val

C8_Witness ==
    /\ op = "have_configuration_slot"
    /\ args.slot = 2
    /\ version = <<2, 4, 3>>
    /\ ret.val = FALSE

\* the interfaces of each USB mode and product ID, read off its name and
\* description (YUBIKEY, versions 1 and 2, is an OTP device; NEO_SKY, the
\* Security Key, a U2F device)
ModeInterfaces ==
    (MODE.OTP :> {"otp"}) @@ (MODE.CCID :> {"ccid"})
        @@ (MODE.OTP_CCID :> {"otp", "ccid"}) @@ (MODE.U2F :> {"u2f"})
        @@ (MODE.OTP_U2F :> {"otp", "u2f"}) @@ (MODE.U2F_CCID :> {"u2f", "ccid"})
        @@ (MODE.OTP_U2F_CCID :> {"otp", "u2f", "ccid"})

PidInterfaces ==
    (PID.YUBIKEY :> {"otp"})
        @@ (PID.NEO_OTP :> {"otp"}) @@ (PID.NEO_OTP_CCID :> {"otp", "ccid"})
        @@ (PID.NEO_CCID :> {"ccid"}) @@ (PID.NEO_U2F :> {"u2f"})
        @@ (PID.NEO_OTP_U2F :> {"otp", "u2f"})
        @@ (PID.NEO_U2F_CCID :> {"u2f", "ccid"})
        @@ (PID.NEO_OTP_U2F_CCID :> {"otp", "u2f", "ccid"})
        @@ (PID.NEO_SKY :> {"u2f"})
        @@ (PID.YK4_OTP :> {"otp"}) @@ (PID.YK4_U2F :> {"u2f"})
        @@ (PID.YK4_OTP_U2F :> {"otp", "u2f"}) @@ (PID.YK4_CCID :> {"ccid"})
        @@ (PID.YK4_OTP_CCID :> {"otp", "ccid"})
        @@ (PID.YK4_U2F_CCID :> {"u2f", "ccid"})
        @@ (PID.YK4_OTP_U2F_CCID :> {"otp", "u2f", "ccid"})
        @@ (PID.PLUS_U2F_OTP :> {"otp", "u2f"})

Requested(a) ==
    (IF a.otp THEN {"otp"} ELSE {}) \cup (IF a.ccid THEN {"ccid"} ELSE {})
        \cup (IF a.u2f THEN {"u2f"} ELSE {})

====
